---- MODULE Spec2Model ----
(***************************************************************************)
(* The ExponentiatedQuadratic kernel of                                    *)
(* tensorflow_probability/python/positive_semidefinite_kernels/            *)
(* exponentiated_quadratic.py: construction with optional, optionally      *)
(* validated parameters, the static and dynamic batch shape, and the       *)
(* pairwise (apply) and all-pairs (matrix) evaluation.                     *)
(*                                                                         *)
(* Tensors are records [shape, val]: shape is a sequence of dimension      *)
(* sizes and val maps every index tuple of that shape to an element.       *)
(* Inputs and parameters hold integers.  The exponent is an extended       *)
(* rational -n/d ("fin"), minus infinity ("ninf") or not-a-number ("nan"); *)
(* a kernel value is c * exp(-n/d) ("num") or not-a-number ("nan").  Both  *)
(* are kept in lowest terms, so equal reals are equal records.             *)
(***************************************************************************)
EXTENDS Integers, Sequences, FiniteSets, TLC

VARIABLES eager, pc, args, kernel, in1, in2, result, done

vars == <<eager, pc, args, kernel, in1, in2, result, done>>

(* ------------------------------ bounds --------------------------------- *)

\* input coordinates range over 0..MaxCoord
MaxCoord == 1
\* parameter elements range over -1..MaxParam
MaxParam == 2

(* --------------------------- arithmetic -------------------------------- *)

Max(a, b) == IF a >= b THEN a ELSE b

Min(a, b) == IF a <= b THEN a ELSE b

RECURSIVE GCD(_, _)
GCD(a, b) == IF b = 0 THEN a ELSE GCD(b, a % b)

\* the extended rational -n/d in lowest terms
Fin(n, d) ==
  IF n = 0 THEN [k |-> "fin", n |-> 0, d |-> 1]
  ELSE [k |-> "fin", n |-> n \div GCD(n, d), d |-> d \div GCD(n, d)]

NInf == [k |-> "ninf", n |-> 0, d |-> 1]

NaNExp == [k |-> "nan", n |-> 0, d |-> 1]

\* the real c * exp(-n/d), with n/d in lowest terms and 0 written 0 * exp(0)
Num(c, n, d) ==
  IF c = 0 \/ n = 0 THEN [k |-> "num", c |-> c, n |-> 0, d |-> 1]
  ELSE [k |-> "num", c |-> c, n |-> n \div GCD(n, d), d |-> d \div GCD(n, d)]

NaN == [k |-> "nan", c |-> 0, n |-> 0, d |-> 1]

(* ------------------------------ shapes --------------------------------- *)

RECURSIVE Indices(_)
Indices(shape) ==
  IF shape = <<>> THEN {<<>>}
  ELSE {<<i>> \o r : i \in 1..Head(shape), r \in Indices(Tail(shape))}

\* the k-th dimension counted from the right; 1 beyond the rank
DimR(shape, k) == IF k <= Len(shape) THEN shape[Len(shape) - k + 1] ELSE 1

BroadcastCompatible(s1, s2) ==
  \A k \in 1..Min(Len(s1), Len(s2)) :
    DimR(s1, k) = DimR(s2, k) \/ DimR(s1, k) = 1 \/ DimR(s2, k) = 1

BroadcastShape(s1, s2) ==
  LET n == Max(Len(s1), Len(s2))
  IN  [i \in 1..n |-> Max(DimR(s1, n - i + 1), DimR(s2, n - i + 1))]

\* the index of a tensor of the given shape that the index idx of a
\* broadcast result reads
Project(idx, shape) ==
  LET off == Len(idx) - Len(shape)
  IN  [i \in 1..Len(shape) |-> IF shape[i] = 1 THEN 1 ELSE idx[off + i]]

Ok(shape, val, ctrl) == [err |-> "none", shape |-> shape, val |-> val, ctrl |-> ctrl]

Fail(e) == [err |-> e, shape |-> <<>>, val |-> <<>>, ctrl |-> {}]

(* ------------------- collaborators: util and tf ------------------------ *)

\* tf.squared_difference, one element
SqDiff(a, b) == (a - b) * (a - b)

\* a difference that is not squared
Diff(a, b) == a - b

\* -.5 * s for a sum of squares s
NegHalf(s) == Fin(s, 2)

\* length_scale**2
Square(l) == l * l

\* exponent / q for q = length_scale**2 >= 0, as IEEE division does it:
\* -0/0 is not a number, -n/0 is minus infinity
Div(e, q) ==
  IF e.k # "fin" THEN e
  ELSE IF q = 0 THEN (IF e.n = 0 THEN NaNExp ELSE NInf)
  ELSE Fin(e.n, e.d * q)

\* tf.exp
Exp(e) ==
  IF e.k = "nan" THEN NaN
  ELSE IF e.k = "ninf" THEN Num(0, 0, 1)
  ELSE Num(1, e.n, e.d)

\* amplitude**2 * exponential
MulSquared(a, v) == IF v.k = "nan" THEN NaN ELSE Num(a * a * v.c, v.n, v.d)

\* amplitude * exponential
Mul(a, v) == IF v.k = "nan" THEN NaN ELSE Num(a * v.c, v.n, v.d)

\* the exponent divided by twice the squared length scale
DivByTwiceSquare(e, l) == Div(e, 2 * Square(l))

\* exponent /= length_scale**2, one element
DivBySquare(e, l) == Div(e, Square(l))

\* the elementwise operations of _apply
BinaryOp(op, u, v) ==
  CASE op = "squared_difference" -> SqDiff(u, v)
    [] op = "subtract" -> Diff(u, v)
    [] op = "div" -> DivBySquare(u, v)
    [] op = "mul" -> Mul(u, v)

UnaryOp(op, u) ==
  CASE op = "neg_half" -> NegHalf(u)
    [] op = "exp" -> Exp(u)

\* an elementwise binary operation with NumPy-style broadcasting
Elementwise(op, a, b) ==
  IF a.err # "none" THEN a
  ELSE IF b.err # "none" THEN b
  ELSE IF ~BroadcastCompatible(a.shape, b.shape) THEN Fail("ShapeError")
  ELSE LET s == BroadcastShape(a.shape, b.shape)
       IN  Ok(s,
              [idx \in Indices(s) |->
                 BinaryOp(op, a.val[Project(idx, a.shape)], b.val[Project(idx, b.shape)])],
              a.ctrl \cup b.ctrl)

\* a unary elementwise operation
Map(op, a) ==
  IF a.err # "none" THEN a
  ELSE Ok(a.shape, [idx \in Indices(a.shape) |-> UnaryOp(op, a.val[idx])], a.ctrl)

\* the difference, not squared
Difference(a, b) == Elementwise("subtract", a, b)

\* tf.squared_difference(x1, x2): (x1 - x2)^2 elementwise, broadcasting
SquaredDifference(a, b) == Elementwise("squared_difference", a, b)

RECURSIVE SumOver(_, _)
SumOver(f, S) ==
  IF S = {} THEN 0
  ELSE LET e == CHOOSE e \in S : TRUE IN f[e] + SumOver(f, S \ {e})

\* util.sum_rightmost_ndims_preserving_shape(x, ndims): the sum over the
\* trailing ndims dimensions; the leading dimensions are kept
SumRightmostNdimsPreservingShape(x, ndims) ==
  IF x.err # "none" THEN x
  ELSE LET lead == SubSeq(x.shape, 1, Len(x.shape) - ndims)
           feat == SubSeq(x.shape, Len(x.shape) - ndims + 1, Len(x.shape))
       IN  Ok(lead,
              [idx \in Indices(lead) |->
                 SumOver([f \in Indices(feat) |-> x.val[idx \o f]], Indices(feat))],
              x.ctrl)

\* util.pad_shape_right_with_ones(x, ndims): ndims trailing dimensions of
\* size 1 are appended to the shape; the elements are kept
PadShapeRightWithOnes(x, ndims) ==
  LET s == x.shape \o [i \in 1..ndims |-> 1]
  IN  Ok(s, [idx \in Indices(s) |-> x.val[SubSeq(idx, 1, Len(x.shape))]], x.ctrl)

\* tf.expand_dims(x, -k): a dimension of size 1 is inserted so that it is
\* the k-th dimension from the right of the result
ExpandDims(x, k) ==
  LET r == Len(x.shape)
      s == SubSeq(x.shape, 1, r - k + 1) \o <<1>> \o SubSeq(x.shape, r - k + 2, r)
  IN  Ok(s,
         [idx \in Indices(s) |->
            x.val[SubSeq(idx, 1, r - k + 1) \o SubSeq(idx, r - k + 3, r + 1)]],
         x.ctrl)

\* tf.assert_positive(x): every element is strictly greater than zero
AssertPositive(x) == \A idx \in Indices(x.shape) : x.val[idx] > 0

AssertionHolds(assertion, x) ==
  CASE assertion = "assert_positive" -> AssertPositive(x)

\* tf.assert_same_float_dtype(tensors): the tensors that are not None
\* share one floating point type
AssertSameFloatDtype(tensors) ==
  \A i, j \in 1..Len(tensors) :
    (tensors[i].present /\ tensors[j].present) => tensors[i].dtype = tensors[j].dtype

\* session.run(t), or the value of t under eager execution: an error of
\* the construction of t, else the failure of an assertion that t depends
\* on, else the value
Run(t) ==
  IF t.err # "none" THEN Fail(t.err)
  ELSE IF \E c \in t.ctrl : ~AssertionHolds(c.assertion, c.x) THEN Fail("ValidationError")
  ELSE Ok(t.shape, t.val, {})

(* ------------------------------ kernel --------------------------------- *)

None == [err |-> "none", present |-> FALSE, shape |-> <<>>, val |-> <<>>,
         dtype |-> "none", ctrl |-> {}]

Tensor(shape, val, dtype) ==
  [err |-> "none", present |-> TRUE, shape |-> shape, val |-> val,
   dtype |-> dtype, ctrl |-> {}]

\* _validate_arg_if_not_none with the assertion made whatever validate_args
ValidateArgAlways(arg, assertion, validate_args) ==
  IF ~arg.present THEN arg
  ELSE IF eager
    THEN (IF AssertionHolds(assertion, arg)
          THEN arg
          ELSE [arg EXCEPT !.err = "ValidationError"])
  ELSE [arg EXCEPT !.ctrl = {[assertion |-> assertion,
                              x |-> [shape |-> arg.shape, val |-> arg.val]]}]

\* _validate_arg_if_not_none with the identity made outside the scope of
\* tf.control_dependencies
ValidateArgUnordered(arg, assertion, validate_args) ==
  IF ~arg.present THEN arg
  ELSE IF validate_args /\ eager
    THEN (IF AssertionHolds(assertion, arg)
          THEN arg
          ELSE [arg EXCEPT !.err = "ValidationError"])
  ELSE arg

\* _validate_arg_if_not_none(arg, assertion, validate_args).  Under eager
\* execution assertion(arg) raises at once and tf.control_dependencies
\* does nothing; under graph execution the assertion becomes a control
\* input of the identity.
ValidateArgIfNotNone(arg, assertion, validate_args) ==
  IF ~arg.present THEN arg
  ELSE IF validate_args /\ eager
    THEN (IF AssertionHolds(assertion, arg)
          THEN arg
          ELSE [arg EXCEPT !.err = "ValidationError"])
  ELSE IF validate_args
    THEN [arg EXCEPT !.ctrl = {[assertion |-> assertion,
                                x |-> [shape |-> arg.shape, val |-> arg.val]]}]
  ELSE arg

\* ExponentiatedQuadratic._batch_shape
BatchShape(self) ==
  IF ~self.amplitude.present \/ ~self.length_scale.present
    THEN Fail("AttributeError")
  ELSE IF ~BroadcastCompatible(self.amplitude.shape, self.length_scale.shape)
    THEN Fail("ShapeError")
  ELSE Ok(BroadcastShape(self.amplitude.shape, self.length_scale.shape), <<>>, {})

\* ExponentiatedQuadratic._batch_shape_tensor; tf.shape of a tensor whose
\* shape is known when the graph is built is a constant
BatchShapeTensor(self) ==
  IF ~self.amplitude.present \/ ~self.length_scale.present
    THEN Fail("ValueError")
  ELSE IF ~BroadcastCompatible(self.amplitude.shape, self.length_scale.shape)
    THEN Fail("ShapeError")
  ELSE Ok(BroadcastShape(self.amplitude.shape, self.length_scale.shape), <<>>, {})

\* tf.convert_to_tensor
ConvertToTensor(x) == Ok(x.shape, x.val, {})

\* the exponent without the length scale
ExponentUnscaled(self, x1, x2, param_expansion_ndims) ==
  Map("neg_half",
      SumRightmostNdimsPreservingShape(SquaredDifference(x1, x2), self.feature_ndims))

\* ExponentiatedQuadratic._apply, the exponent
Exponent(self, x1, x2, param_expansion_ndims) ==
  LET exponent == Map("neg_half",
                      SumRightmostNdimsPreservingShape(
                        SquaredDifference(x1, x2), self.feature_ndims))
  IN  IF self.length_scale.present
      THEN LET length_scale == PadShapeRightWithOnes(
                                 self.length_scale, param_expansion_ndims)
           IN  Elementwise("div", exponent, length_scale)
      ELSE exponent

\* _apply with the parameters left unpadded
ApplyUnpadded(self, x1, x2, param_expansion_ndims) ==
  LET exponential == Map("exp", Exponent(self, ConvertToTensor(x1), ConvertToTensor(x2), 0))
  IN  IF self.amplitude.present
      THEN Elementwise("mul", PadShapeRightWithOnes(self.amplitude, 0), exponential)
      ELSE exponential

\* ExponentiatedQuadratic._apply
Apply(self, x1, x2, param_expansion_ndims) ==
  LET exponent == Exponent(self, ConvertToTensor(x1), ConvertToTensor(x2),
                           param_expansion_ndims)
      exponential == Map("exp", exponent)
  IN  IF self.amplitude.present
      THEN LET amplitude == PadShapeRightWithOnes(
                              self.amplitude, param_expansion_ndims)
           IN  Elementwise("mul", amplitude, exponential)
      ELSE exponential

\* PositiveSemidefiniteKernel.matrix: the example axis of x1 and the one of
\* x2 are paired up and _apply is run on the all-pairs grid, the
\* parameters padded with the two axes this adds
Matrix(self, x1, x2) ==
  Apply(self,
        ExpandDims(ConvertToTensor(x1), self.feature_ndims + 1),
        ExpandDims(ConvertToTensor(x2), self.feature_ndims + 2),
        2)

(* ------------------------------ inputs --------------------------------- *)

RECURSIVE SumSeq(_)
SumSeq(q) == IF q = <<>> THEN 0 ELSE Head(q) + SumSeq(Tail(q))

\* the shapes of the parameters: a scalar and two batches
ParamShapes == {<<>>, <<2>>, <<3>>}

\* the shapes of the inputs to apply and matrix
InputShapes == {<<1>>, <<2>>, <<3>>, <<2, 2>>, <<3, 2>>, <<2, 1, 2>>}

\* the numbers of feature dimensions: vectors and matrices
FeatureNdims == {1, 2}

\* parameters with elements in -1..MaxParam: every scalar; of the batches
\* of size 2 the positive ones 1, 2, ... wrapped around and one that holds
\* a zero; one positive batch of size 3; and a scalar of another type
ParamsOfShape(shape) ==
  IF shape = <<>>
  THEN {Tensor(shape, [idx \in Indices(shape) |-> v], "float32") : v \in (-1)..MaxParam}
  ELSE IF shape = <<2>>
  THEN {Tensor(shape,
               [idx \in Indices(shape) |-> 1 + ((b + SumSeq(idx)) % MaxParam)],
               "float32") : b \in 1..MaxParam}
       \cup {Tensor(shape, [idx \in Indices(shape) |-> SumSeq(idx) - 1], "float32")}
  ELSE {Tensor(shape,
               [idx \in Indices(shape) |-> 1 + (SumSeq(idx) % MaxParam)],
               "float32")}

ParamArgs ==
  {None, Tensor(<<>>, [idx \in Indices(<<>>) |-> 1], "float64")}
    \cup UNION {ParamsOfShape(s) : s \in ParamShapes}

\* inputs with coordinates in 0..MaxCoord that change along every axis
InputsOfShape(shape) ==
  {[shape |-> shape,
    val |-> [idx \in Indices(shape) |-> (b + SumSeq(idx)) % (MaxCoord + 1)]] :
     b \in 0..MaxCoord}

Inputs == UNION {InputsOfShape(s) : s \in InputShapes}

NoInput == [shape |-> <<>>, val |-> <<>>]

NoArgs == [amplitude |-> None, length_scale |-> None, feature_ndims |-> 0,
           validate_args |-> FALSE]

NoResult == [op |-> "none", err |-> "none", shape |-> <<>>, val |-> <<>>]

Outcome(op, t) == [op |-> op, err |-> t.err, shape |-> t.shape, val |-> t.val]

(* ------------------------------ actions -------------------------------- *)

\* an op of the graph: what it does and the parameter it is about
Node(op, of) == [op |-> op, of |-> of]

Init ==
  /\ eager \in BOOLEAN
  /\ pc = "new"
  /\ args = NoArgs
  /\ kernel = NoArgs
  /\ in1 = NoInput
  /\ in2 = NoInput
  /\ result = NoResult
  /\ done = {}

\* ExponentiatedQuadratic.__init__
Construct(amplitude, length_scale, feature_ndims, validate_args) ==
  LET a == ValidateArgIfNotNone(amplitude, "assert_positive", validate_args)
      l == IF a.err = "none"
           THEN ValidateArgIfNotNone(length_scale, "assert_positive", validate_args)
           ELSE a
      err == IF l.err # "none" THEN l.err
             ELSE IF ~AssertSameFloatDtype(<<a, l>>) THEN "TypeMismatchError"
             ELSE "none"
  IN  /\ pc = "new"
      /\ args' = [amplitude |-> amplitude, length_scale |-> length_scale,
                  feature_ndims |-> feature_ndims, validate_args |-> validate_args]
      /\ result' = IF err = "none" THEN NoResult ELSE Outcome("construct", Fail(err))
      /\ IF err = "none"
         THEN /\ pc' = "ready"
              /\ kernel' = [amplitude |-> a, length_scale |-> l,
                            feature_ndims |-> feature_ndims,
                            validate_args |-> validate_args]
         ELSE /\ pc' = "failed"
              /\ UNCHANGED kernel
      /\ done' = {Node("assert", p) :
                    p \in {q \in {"amplitude", "length_scale"} :
                             /\ eager /\ validate_args
                             /\ (IF q = "amplitude" THEN a ELSE l).present
                             /\ (IF q = "amplitude" THEN a ELSE l).err = "none"}}
      /\ UNCHANGED <<eager, in1, in2>>

ConstructAny ==
  \E amplitude \in ParamArgs, length_scale \in ParamArgs,
     feature_ndims \in FeatureNdims, validate_args \in BOOLEAN :
       Construct(amplitude, length_scale, feature_ndims, validate_args)

\* PositiveSemidefiniteKernel.batch_shape
batch_shape ==
  /\ pc = "ready"
  /\ result' = Outcome("batch_shape", Run(BatchShape(kernel)))
  /\ in1' = NoInput
  /\ in2' = NoInput
  /\ pc' = "returned"
  /\ UNCHANGED <<eager, args, kernel, done>>

\* PositiveSemidefiniteKernel.batch_shape_tensor
batch_shape_tensor ==
  /\ pc = "ready"
  /\ result' = Outcome("batch_shape_tensor", Run(BatchShapeTensor(kernel)))
  /\ in1' = NoInput
  /\ in2' = NoInput
  /\ pc' = "returned"
  /\ UNCHANGED <<eager, args, kernel, done>>

\* PositiveSemidefiniteKernel.apply
apply ==
  /\ pc = "ready"
  /\ \E x1 \in Inputs, x2 \in Inputs :
       /\ Len(x1.shape) >= kernel.feature_ndims
       /\ Len(x2.shape) >= kernel.feature_ndims
       /\ in1' = x1
       /\ in2' = x2
       /\ result' = Outcome("apply", Run(Apply(kernel, x1, x2, 0)))
  /\ pc' = "returned"
  /\ UNCHANGED <<eager, args, kernel, done>>

\* PositiveSemidefiniteKernel.matrix
matrix ==
  /\ pc = "ready"
  /\ \E x1 \in Inputs, x2 \in Inputs :
       /\ Len(x1.shape) >= kernel.feature_ndims + 1
       /\ Len(x2.shape) >= kernel.feature_ndims + 1
       /\ in1' = x1
       /\ in2' = x2
       /\ result' = Outcome("matrix", Run(Matrix(kernel, x1, x2)))
  /\ pc' = "returned"
  /\ UNCHANGED <<eager, args, kernel, done>>

\* the caller takes the result; the kernel is ready for the next call
Return ==
  /\ pc = "returned"
  /\ pc' = "ready"
  /\ result' = NoResult
  /\ in1' = NoInput
  /\ in2' = NoInput
  /\ done' = IF eager THEN {n \in done : n.op = "assert"} ELSE {}
  /\ UNCHANGED <<eager, args, kernel>>

(* ------------------- the evaluation, op by op -------------------------- *)

\* the inputs of the op-by-op evaluation
RunInputs == InputsOfShape(<<2, 2>>)

\* the ops that _apply and _validate_arg_if_not_none put in the graph
Ops(self) ==
  {Node("exponent", "none"), Node("exp", "none")}
    \cup (IF self.length_scale.present
          THEN {Node("identity", "length_scale"), Node("div", "length_scale")}
          ELSE {})
    \cup (IF self.amplitude.present
          THEN {Node("identity", "amplitude"), Node("mul", "amplitude")}
          ELSE {})
    \cup {Node("assert", p) :
            p \in {q \in {"amplitude", "length_scale"} : self[q].ctrl # {}}}

\* the data and control inputs of an op
Deps(self, n) ==
  CASE n.op = "assert" -> {}
    [] n.op = "identity" -> IF self[n.of].ctrl # {} THEN {Node("assert", n.of)} ELSE {}
    [] n.op = "exponent" -> {}
    [] n.op = "div" -> {Node("exponent", "none"), Node("identity", "length_scale")}
    [] n.op = "exp" -> IF self.length_scale.present
                       THEN {Node("div", "length_scale")}
                       ELSE {Node("exponent", "none")}
    [] n.op = "mul" -> {Node("exp", "none"), Node("identity", "amplitude")}

\* the op whose value _apply returns
Fetched(self) ==
  IF self.amplitude.present THEN Node("mul", "amplitude") ELSE Node("exp", "none")

\* apply or matrix builds the graph of _apply; a shape error shows at once
Build(op, t) ==
  /\ pc = "ready"
  /\ IF t.err # "none"
     THEN /\ pc' = "returned"
          /\ result' = Outcome(op, Fail(t.err))
     ELSE /\ pc' = "running"
          /\ result' = Outcome(op, Fail("running"))
  /\ UNCHANGED <<eager, args, kernel, done>>

BuildApply ==
  \E x1 \in RunInputs, x2 \in RunInputs :
    /\ Len(x1.shape) >= kernel.feature_ndims
    /\ Len(x2.shape) >= kernel.feature_ndims
    /\ in1' = x1
    /\ in2' = x2
    /\ Build("apply", Apply(kernel, x1, x2, 0))

BuildMatrix ==
  \E x1 \in RunInputs, x2 \in RunInputs :
    /\ Len(x1.shape) >= kernel.feature_ndims + 1
    /\ Len(x2.shape) >= kernel.feature_ndims + 1
    /\ in1' = x1
    /\ in2' = x2
    /\ Build("matrix", Matrix(kernel, x1, x2))

\* the executor runs an op all of whose inputs have run; a failing
\* assertion ends the evaluation, the fetched op ends it with the value
RunOp ==
  /\ pc = "running"
  /\ \E n \in Ops(kernel) \ done :
       /\ Deps(kernel, n) \subseteq done
       /\ IF n.op = "assert" /\ ~AssertionHolds("assert_positive", kernel[n.of])
          THEN /\ pc' = "returned"
               /\ result' = Outcome(result.op, Fail("ValidationError"))
               /\ UNCHANGED done
          ELSE IF n = Fetched(kernel)
          THEN /\ pc' = "returned"
               /\ result' = Outcome(result.op,
                                    IF result.op = "apply"
                                    THEN Apply(kernel, in1, in2, 0)
                                    ELSE Matrix(kernel, in1, in2))
               /\ done' = done \cup {n}
          ELSE /\ done' = done \cup {n}
               /\ UNCHANGED <<pc, result>>
  /\ UNCHANGED <<eager, args, kernel, in1, in2>>

NextRun ==
  \/ ConstructAny
  \/ batch_shape
  \/ batch_shape_tensor
  \/ BuildApply
  \/ BuildMatrix
  \/ RunOp
  \/ Return

SpecRun == Init /\ [][NextRun]_vars

Next ==
  \/ ConstructAny
  \/ batch_shape
  \/ batch_shape_tensor
  \/ apply
  \/ matrix
  \/ Return

Spec == Init /\ [][Next]_vars

(* ------------------------- claims: helpers ----------------------------- *)

Params == {"amplitude", "length_scale"}

Returned(op) == pc = "returned" /\ result.op = op

\* the trailing feature_ndims dimensions, and the ones before them
FeatShape(x) ==
  SubSeq(x.shape, Len(x.shape) - kernel.feature_ndims + 1, Len(x.shape))

LeadShape(x) == SubSeq(x.shape, 1, Len(x.shape) - kernel.feature_ndims)

\* the shapes of the parameters that are present
PresentShapes == {kernel[p].shape : p \in {q \in Params : kernel[q].present}}

PairwiseCompatible(S) == \A s \in S, t \in S : BroadcastCompatible(s, t)

RECURSIVE BroadcastAll(_)
BroadcastAll(S) ==
  IF S = {} THEN <<>>
  ELSE LET s == CHOOSE s \in S : TRUE IN BroadcastShape(s, BroadcastAll(S \ {s}))

\* the element of a parameter that the entry idx of a result reads; 1 for
\* an absent parameter
ParamAt(p, idx) ==
  IF kernel[p].present THEN kernel[p].val[Project(idx, kernel[p].shape)] ELSE 1

\* the squared distances of the broadcast inputs
SqDistance == SumRightmostNdimsPreservingShape(
                SquaredDifference(ConvertToTensor(in1), ConvertToTensor(in2)),
                kernel.feature_ndims)

NonPositive(arg) == arg.present /\ ~AssertPositive(arg)

(* ------------------------------ claims --------------------------------- *)

\* C1: batch_shape() and batch_shape_dynamic() return the broadcast of the
\* shapes of the present parameters, an absent parameter counting as shape
\* (), and do not fail when a parameter is absent.
C1_BatchShapeAbsentAsScalar ==
  (Returned("batch_shape") \/ Returned("batch_shape_tensor"))
    => (BroadcastCompatible(kernel.amplitude.shape, kernel.length_scale.shape)
          => /\ result.err = "none"
             /\ result.shape = BroadcastShape(kernel.amplitude.shape,
                                              kernel.length_scale.shape))

\* C2 as stated: apply fails with a ShapeError whenever the feature
\* dimensions of x1 and x2 are not equal in size (1 against n > 1
\* included), and whenever the leading dimensions and the batch shape are
\* not broadcast-compatible.
C2_UnequalFeatureDimsFail ==
  Returned("apply")
    => ((FeatShape(in1) # FeatShape(in2)
           \/ ~PairwiseCompatible({LeadShape(in1), LeadShape(in2)} \cup PresentShapes))
          => result.err = "ShapeError")

\* C2 amended: apply fails with a ShapeError whenever the feature
\* dimensions of x1 and x2 are not broadcast-compatible (they differ in
\* size and neither size is 1), and whenever the leading dimensions and
\* the batch shape are not broadcast-compatible.
C2_IncompatibleShapesFail ==
  Returned("apply")
    => ((~BroadcastCompatible(FeatShape(in1), FeatShape(in2))
           \/ ~PairwiseCompatible({LeadShape(in1), LeadShape(in2)} \cup PresentShapes))
          => result.err = "ShapeError")

C2_Witness ==
  /\ Returned("apply")
  /\ ~BroadcastCompatible(FeatShape(in1), FeatShape(in2))
  /\ result.err = "ShapeError"

\* C3: an absent parameter stays absent and unchecked; without
\* validate_args a parameter is passed through and no ValidationError is
\* ever raised; with validate_args a present parameter is passed through
\* and its check raises a ValidationError exactly when one of its elements
\* is not strictly greater than zero.
C3_ValidationGated ==
  /\ result.err = "ValidationError"
       => args.validate_args /\ \E p \in Params : NonPositive(args[p])
  /\ (pc = "failed" /\ result.err = "ValidationError") => eager
  /\ (eager /\ args.validate_args /\ pc # "new" /\ \E p \in Params : NonPositive(args[p]))
       => (pc = "failed" /\ result.err = "ValidationError")
  /\ pc \in {"ready", "returned"} =>
       \A p \in Params :
         /\ kernel[p].present = args[p].present
         /\ kernel[p].shape = args[p].shape
         /\ kernel[p].val = args[p].val
         /\ ~args[p].present => kernel[p] = None
         /\ ~args.validate_args => kernel[p].ctrl = {}
         /\ Run(kernel[p]).err = "ValidationError"
              <=> (args.validate_args /\ NonPositive(args[p]))
         /\ Run(kernel[p]).err = "none" => Run(kernel[p]).val = args[p].val
  /\ (Returned("apply") /\ result.err = "none" /\ args.validate_args)
       => \A p \in Params : ~NonPositive(args[p])

C3_Witness ==
  /\ Returned("apply")
  /\ result.err = "ValidationError"
  /\ args.validate_args
  /\ args.amplitude.present /\ AssertPositive(args.amplitude)
  /\ NonPositive(args.length_scale)

C6_DocumentedFormula ==
  (Returned("apply") /\ result.err = "none"
     /\ kernel.amplitude.present /\ kernel.length_scale.present)
    => \A idx \in Indices(result.shape) :
         LET a == ParamAt("amplitude", idx)
             l == ParamAt("length_scale", idx)
             sq == SqDistance.val[Project(idx, SqDistance.shape)]
         IN  l # 0 => result.val[idx] = Num(a * a, sq, 2 * l * l)

\* the kernel of batch member bidx: every present parameter is the scalar
\* that the member reads
Member(bidx) ==
  [kernel EXCEPT
     !.amplitude = IF @.present
                   THEN Tensor(<<>>, [i \in {<<>>} |-> ParamAt("amplitude", bidx)], @.dtype)
                   ELSE @,
     !.length_scale = IF @.present
                      THEN Tensor(<<>>, [i \in {<<>>} |-> ParamAt("length_scale", bidx)],
                                  @.dtype)
                      ELSE @]

\* the i-th example of a batch of examples
Row(x, i) ==
  [shape |-> Tail(x.shape),
   val |-> [f \in Indices(Tail(x.shape)) |-> x.val[<<i>> \o f]]]

SameOutcome(r, t) ==
  /\ r.err = t.err
  /\ r.err = "none" => (r.shape = t.shape /\ r.val = t.val)

One == Tensor(<<>>, [i \in {<<>>} |-> 1], "float32")

\* C7: with feature_ndims = 1, x1 of shape [M, D] and x2 of shape [N, D],
\* matrix(x1, x2) has shape B + [M, N] for the batch shape B of the
\* parameters (B = [] gives [M, N]), and its entry [b, i, j] is
\* apply(x1[i], x2[j]) with the parameter values of batch member b.
C7_MatrixIsAllPairsApply ==
  (Returned("matrix") /\ result.err = "none" /\ kernel.feature_ndims = 1
     /\ Len(in1.shape) = 2 /\ Len(in2.shape) = 2)
    => /\ result.shape = BroadcastAll(PresentShapes) \o <<in1.shape[1], in2.shape[1]>>
       /\ \A idx \in Indices(result.shape) :
            LET n == Len(idx)
            IN  result.val[idx] =
                  Apply(Member(SubSeq(idx, 1, n - 2)),
                        Row(in1, idx[n - 1]), Row(in2, idx[n]), 0).val[<<>>]

C7_Witness ==
  /\ Returned("matrix") /\ result.err = "none" /\ kernel.feature_ndims = 1
  /\ in1.shape = <<3, 2>> /\ in2.shape = <<2, 2>>
  /\ kernel.amplitude.present /\ kernel.amplitude.shape = <<2>>
  /\ kernel.amplitude.val[<<1>>] # kernel.amplitude.val[<<2>>]
  /\ kernel.length_scale.present /\ kernel.length_scale.shape = <<>>
  /\ result.shape = <<2, 3, 2>>
  /\ result.val[<<1, 1, 2>>] # result.val[<<2, 1, 2>>]

\* C8: the shape of apply(x1, x2) is the broadcast of the leading
\* dimensions of x1, of x2 and of batch_shape().
C8_ApplyShapeFromBatchShape ==
  (Returned("apply") /\ result.err = "none")
    => /\ BatchShape(kernel).err = "none"
       /\ result.shape = BroadcastAll({LeadShape(in1), LeadShape(in2),
                                       BatchShape(kernel).shape})

\* C9: a kernel without amplitude returns from apply what the kernel with
\* amplitude 1 and the same length_scale returns, and a kernel without
\* length_scale what the kernel with length_scale 1 and the same amplitude
\* returns; the construction with a parameter absent succeeds, the
\* validation of the other parameter aside.
C9_AbsentParameterIsOne ==
  /\ (Returned("apply") /\ ~kernel.amplitude.present)
       => SameOutcome(result, Run(Apply([kernel EXCEPT !.amplitude = One], in1, in2, 0)))
  /\ (Returned("apply") /\ ~kernel.length_scale.present)
       => SameOutcome(result, Run(Apply([kernel EXCEPT !.length_scale = One], in1, in2, 0)))
  /\ (pc = "failed" /\ \E p \in Params : ~args[p].present)
       => /\ result.err = "ValidationError"
          /\ args.validate_args
          /\ \E p \in Params : NonPositive(args[p])
  /\ (pc # "new" /\ \A p \in Params : ~args[p].present) => pc # "failed"

C9_Witness ==
  /\ Returned("apply") /\ result.err = "none"
  /\ ~kernel.length_scale.present
  /\ kernel.amplitude.present /\ kernel.amplitude.shape = <<2>>
  /\ in1.shape = <<2>> /\ in2.shape = <<2, 2>>
  /\ result.val[<<1>>].n # 0
  /\ result.val[<<1>>].c # 1

\* C10: apply(x, y) and apply(y, x) are the same, in value and in shape.
C10_Symmetry ==
  Returned("apply") => SameOutcome(result, Run(Apply(kernel, in2, in1, 0)))

C10_Witness ==
  /\ Returned("apply") /\ result.err = "none"
  /\ in1.shape = <<2>> /\ in2.shape = <<3, 2>>
  /\ kernel.amplitude.present /\ kernel.length_scale.present
  /\ \E i \in 1..3 : result.val[<<i>>].n # 0

\* the parameter an op reads
Uses(n) == IF n.op \in {"identity", "div", "mul"} THEN {n.of} ELSE {}

Checked(p) == Node("assert", p) \in done

\* C4 as stated: with validate_args the assertion on a present parameter
\* has been evaluated before batch_shape, batch_shape_dynamic, apply or
\* matrix use that parameter, and no result is produced from a parameter
\* whose check fails.
C4_CheckBeforeEveryUse ==
  args.validate_args =>
    /\ \A n \in done : \A p \in Uses(n) : Checked(p)
    /\ (pc = "returned" /\ result.err = "none")
         => \A p \in Params : kernel[p].present => (Checked(p) /\ AssertPositive(kernel[p]))

\* C4 amended: with validate_args the assertion on a present parameter has
\* been evaluated before any op of apply or matrix reads that parameter,
\* and apply and matrix produce no result from a parameter whose check
\* fails; batch_shape and batch_shape_dynamic read only the shape, which
\* is known without running the check.
C4_CheckBeforeUseInApply ==
  args.validate_args =>
    /\ \A n \in done : \A p \in Uses(n) : Checked(p)
    /\ (pc = "returned" /\ result.op \in {"apply", "matrix"} /\ result.err = "none")
         => \A p \in Params : kernel[p].present => (Checked(p) /\ AssertPositive(kernel[p]))

C4_Witness ==
  /\ ~eager /\ args.validate_args
  /\ Returned("apply") /\ result.err = "none"
  /\ Node("mul", "amplitude") \in done
  /\ Node("div", "length_scale") \in done
  /\ Checked("amplitude") /\ Checked("length_scale")

====
